---- MODULE Spec2Model ----
(***************************************************************************)
(* A model of markdown_to_pdf.py: the configuration loader and its deep    *)
(* merge (on a heap of dict objects, because the code merges in place),    *)
(* the title extraction of convert(), the render-and-retry step and the    *)
(* exception routing of convert() and main().                              *)
(***************************************************************************)
EXTENDS Integers, Sequences, FiniteSets, TLC

VARIABLES
    heap,             \* the dict objects of the process: heap[id] is a dict
    converters,       \* the constructor calls so far: [config, file, exc, initial]
    mergeIn,          \* a _deep_merge call: its arguments, as values and ids
    mergeOut,         \* that call's returned dict, as a value
    pc,               \* the position of main()
    args,             \* the parsed command line, with the files it names
    log,              \* what the run did to the outside, in order
    fs,               \* what _validate_inputs found: [inputIsFile, outDirIsDir]
    reads,            \* the reads of the Markdown file: [encoding, outcome]
    markdown_content, \* the text read: [encoding, text]
    html_content,     \* the fragment the Markdown renderer returned
    title,            \* the title written into the document
    options,          \* the full option set of _convert_to_pdf
    tempDir,          \* the temporary directory: "none", "exists", "removed"
    tempHtml,         \* whether temp.html is on disk
    attempts,         \* the pdfkit.from_file calls: [options, outcome, dir]
    raised,           \* the failure of the run: [at, exc], exc as it left its step
    convertResult,    \* "none", "True", or the exception convert() raised
    mainResult        \* how main() ended: [returned, status]

cfgVars == <<heap, converters>>
mergeVars == <<mergeIn, mergeOut>>
docVars == <<markdown_content, html_content, title>>
pdfVars == <<options, tempDir, tempHtml, attempts>>
endVars == <<raised, convertResult, mainResult>>
vars ==
    <<heap, converters, mergeIn, mergeOut, pc, args, log, fs, reads,
      markdown_content, html_content, title, options, tempDir, tempHtml,
      attempts, raised, convertResult, mainResult>>

----------------------------------------------------------------------------
(* Values.  A scalar stands for any non-dict YAML value (a string, a       *)
(* number, a list taken whole); a dict on the heap is a function from its  *)
(* keys to cells, and a cell is a scalar or a reference to a dict.         *)

Scalar(v) == [t |-> "s", v |-> v]
Ref(i) == [t |-> "r", id |-> i]
Map(m) == [t |-> "m", m |-> m]
\* isinstance(x, dict), of a heap cell
IsDict(c) == c.t = "r"
EmptyDict == <<>>

\* dict iteration order: the keys of d in the order of KeyOrder
KeyOrder ==
    << "pdf_options", "css_styles", "metadata", "extra",
       "page-size", "margin-top", "margin-right", "margin-bottom",
       "margin-left", "encoding", "quiet", "dpi",
       "base", "header", "footer", "creator", "producer", "name",
       "a", "b" >>
Items(d) == SelectSeq(KeyOrder, LAMBDA k : k \in DOMAIN d)

\* base[key] = c, on the dict object id of heap h
SetItem(h, id, key, c) ==
    [h EXCEPT ![id] = [k \in DOMAIN h[id] \cup {key} |->
                          IF k = key THEN c ELSE h[id][k]]]

\* the value a cell denotes: a scalar, or the tree below a reference
RECURSIVE Value(_, _)
Value(h, c) ==
    IF c.t = "s" THEN c
    ELSE Map([k \in DOMAIN h[c.id] |-> Value(h, h[c.id][k])])

\* fresh objects for a parsed YAML value (yaml.safe_load builds new objects)
RECURSIVE Alloc(_, _), AllocItems(_, _, _, _)
AllocItems(h, id, m, ks) ==
    IF ks = <<>> THEN h
    ELSE LET r == Alloc(h, m[Head(ks)])
         IN  AllocItems(SetItem(r.h, id, Head(ks), r.c), id, m, Tail(ks))
Alloc(h, tree) ==
    IF tree.t = "s" THEN [h |-> h, c |-> tree]
    ELSE LET id == Len(h) + 1
         IN  [h |-> AllocItems(Append(h, EmptyDict), id, tree.m, Items(tree.m)),
              c |-> Ref(id)]

----------------------------------------------------------------------------
(* DEFAULT_CONFIG: one module-level dict holding three nested dicts.       *)

DefaultPdfOptions ==
    [k \in {"page-size", "margin-top", "margin-right", "margin-bottom",
            "margin-left", "encoding", "quiet"} |->
        CASE k = "page-size" -> Scalar("A4")
          [] k = "encoding"  -> Scalar("UTF-8")
          [] k = "quiet"     -> Scalar("")
          [] OTHER           -> Scalar("20mm")]
DefaultCssStyles ==
    [k \in {"base", "header", "footer"} |-> Scalar(k)]
DefaultMetadata ==
    [k \in {"creator", "producer"} |->
        IF k = "creator" THEN Scalar("Markdown to PDF Converter")
        ELSE Scalar("Python pdfkit/wkhtmltopdf")]
\* the value of DEFAULT_CONFIG as the source text gives it
BuiltinDefaults ==
    Map([k \in {"pdf_options", "css_styles", "metadata"} |->
        CASE k = "pdf_options" -> Map(DefaultPdfOptions)
          [] k = "css_styles"  -> Map(DefaultCssStyles)
          [] OTHER             -> Map(DefaultMetadata)])
\* the heap after the module is imported, and the id of DEFAULT_CONFIG
InitHeap == Alloc(<<>>, BuiltinDefaults).h
DEFAULT_CONFIG == Alloc(<<>>, BuiltinDefaults).c

----------------------------------------------------------------------------
(* _deep_merge(base, update): for each item of update, merge into base[key] *)
(* when both values are dicts, else assign; base is changed in place and    *)
(* returned.                                                                *)

\* line 150 with the test always false: every item is assigned
NeverRecurse(h, b, key, value) == FALSE
\* line 150: key in base and both base[key] and value are dicts
ShouldRecurse(h, b, key, value) ==
    /\ key \in DOMAIN h[b]
    /\ IsDict(h[b][key])
    /\ IsDict(value)

RECURSIVE DeepMergeItems(_, _, _, _)
DeepMergeItems(h, b, u, ks) ==
    IF ks = <<>> THEN h
    ELSE LET key == Head(ks)
             value == h[u][key]
             h1 == IF ShouldRecurse(h, b, key, value)
                   THEN LET h2 == DeepMergeItems(h, h[b][key].id, value.id,
                                                 Items(h[value.id]))
                        IN  SetItem(h2, b, key, h2[b][key])
                   ELSE SetItem(h, b, key, value)
         IN  DeepMergeItems(h1, b, u, Tail(ks))
\* the heap after _deep_merge(base, update); the call returns base
DeepMerge(h, base, update) == DeepMergeItems(h, base, update, Items(h[update]))

----------------------------------------------------------------------------
(* Exceptions, by class name.  KeyboardInterrupt and SystemExit derive     *)
(* from BaseException only; the four Conversion classes form one family.   *)

ConversionFamily ==
    {"ConversionError", "ConfigurationError", "DependencyError",
     "InputValidationError"}
\* caught by "except Exception"
IsException(e) ==
    e \notin {"none", "KeyboardInterrupt", "SystemExit(0)", "SystemExit(2)"}
\* caught by "except ConversionError"
IsConversionError(e) == e \in ConversionFamily

----------------------------------------------------------------------------
(* _load_config(config_path).  A config file is absent from the command    *)
(* line (None), unreadable, not YAML, or parses to a value.                *)

NoConfig == [kind |-> "None"]
Unreadable == [kind |-> "unreadable"]
NotYaml == [kind |-> "yaml_error"]
Doc(tree) == [kind |-> "doc", doc |-> tree]
\* the values the override files of the model parse to
ConfigDocs ==
    { Scalar("null"),
      Scalar("text"),
      Map("pdf_options" :> Map("page-size" :> Scalar("Letter"))),
      Map("pdf_options" :> Map("dpi" :> Scalar("300"))),
      Map("metadata" :> Scalar("none")),
      Map("css_styles" :> Scalar("none")),
      Map("metadata" :> Map("creator" :> Map("name" :> Scalar("X")))),
      Map("extra" :> Map("a" :> Scalar("1"))) }
ConfigFiles == {NoConfig, Unreadable, NotYaml} \cup {Doc(d) : d \in ConfigDocs}

\* Python truth of a parsed value: None and the empty values are false
Falsy(tree) == tree.t = "s" /\ tree.v \in {"null", ""}

\* [h, config, exc]: the heap after the call, the returned dict, the exception
LoadConfig(h, cf) ==
    LET h1 == Append(h, h[DEFAULT_CONFIG.id])      \* DEFAULT_CONFIG.copy()
        config == Len(h1)
    IN  CASE cf.kind = "None" ->
               [h |-> h1, config |-> config, exc |-> "none"]
          [] cf.kind \in {"unreadable", "yaml_error"} ->
               [h |-> h1, config |-> 0, exc |-> "ConfigurationError"]
          [] OTHER ->
               LET user == IF Falsy(cf.doc) THEN Map(EmptyDict) ELSE cf.doc
                   r == Alloc(h1, user)
               IN  IF ~IsDict(r.c)        \* update.items() on a non-dict
                   THEN [h |-> h1, config |-> 0, exc |-> "ConfigurationError"]
                   ELSE [h |-> DeepMerge(r.h, config, r.c.id),
                         config |-> config, exc |-> "none"]

\* _validate_dependencies(): the outcome of the no-op render, as raised
DependencyOutcomes == {"none", "OSError", "Exception"}
ValidateDependencies(outcome) ==
    IF outcome = "OSError" THEN "DependencyError" ELSE outcome

----------------------------------------------------------------------------
(* Text.  A Python str is a sequence of one-character strings, indexed     *)
(* from 0 as in Python.                                                    *)

\* s[a:b] for 0 <= a and b <= len(s); empty when b <= a
Slice(s, a, b) == IF b <= a THEN <<>> ELSE SubSeq(s, a + 1, b)
\* s.find(sub, start): the lowest index >= start where sub occurs, else -1
Find(s, sub, start) ==
    LET hits == {i \in start..(Len(s) - Len(sub)) :
                    Slice(s, i, i + Len(sub)) = sub}
    IN  IF hits = {} THEN -1 ELSE CHOOSE i \in hits : \A j \in hits : i <= j
\* s.rfind(c) for a one-character c
RFind(s, c) ==
    LET hits == {i \in 0..(Len(s) - 1) : s[i + 1] = c}
    IN  IF hits = {} THEN -1 ELSE CHOOSE i \in hits : \A j \in hits : j <= i
Whitespace == {" ", "\n", "\t"}
\* s.strip()
Strip(s) ==
    LET keep == {i \in 1..Len(s) : s[i] \notin Whitespace}
    IN  IF keep = {} THEN <<>>
        ELSE SubSeq(s, CHOOSE i \in keep : \A j \in keep : i <= j,
                       CHOOSE i \in keep : \A j \in keep : j <= i)
\* the concatenation of a sequence of strings, sep between them
RECURSIVE Join(_, _)
Join(parts, sep) ==
    IF parts = <<>> THEN <<>>
    ELSE IF Len(parts) = 1 THEN parts[1]
    ELSE parts[1] \o sep \o Join(Tail(parts), sep)

\* os.path.basename(p)
BaseName(p) == Slice(p, RFind(p, "/") + 1, Len(p))
\* os.path.splitext(p)[0]: cut at the last dot of the last component,
\* unless that component has nothing but dots before it
SplitExtRoot(p) ==
    LET sep == RFind(p, "/")
        dot == RFind(p, ".")
    IN  IF dot > sep /\ \E i \in (sep + 1)..(dot - 1) : p[i + 1] # "."
        THEN Slice(p, 0, dot)
        ELSE p

H1Open == << "<", "h", "1", ">" >>
H1Close == << "<", "/", "h", "1", ">" >>

\* lines 348-354 of convert(): the title taken from html_content
ExtractTitle(html, markdown_file) ==
    LET fallback == SplitExtRoot(BaseName(markdown_file))
        h1_start == Find(html, H1Open, 0) + 4
        h1_end == Find(html, H1Close, h1_start)
    IN  IF Find(html, H1Open, 0) # -1 /\ h1_start > 3 /\ h1_end > h1_start
        THEN Strip(Slice(html, h1_start, h1_end))
        ELSE fallback
\* line 242 of _generate_html_document: title or "Document"
DocumentTitle(t) ==
    IF t = <<>> THEN << "D", "o", "c", "u", "m", "e", "n", "t" >> ELSE t

----------------------------------------------------------------------------
(* markdown.markdown(text, extensions=[..., 'toc', ...]).  A document is a *)
(* sequence of blocks: an ATX heading "# text", a paragraph, or a block of *)
(* raw HTML, which the renderer passes through unchanged.  The toc         *)
(* extension gives every heading an id attribute made from its text.       *)

Heading(text) == [k |-> "h1", text |-> text]
Para(text) == [k |-> "p", text |-> text]
\* a raw <h1> element written in the Markdown source
RawH1(text, closed) == [k |-> "raw", text |-> text, closed |-> closed]

Lower(c) ==
    CASE c = "H" -> "h" [] c = "W" -> "w" [] c = "T" -> "t" [] c = " " -> "-"
      [] OTHER -> c
\* toc's slugify, on the characters of the model
Slugify(text) == [i \in 1..Len(text) |-> Lower(text[i])]
RenderBlock(b) ==
    CASE b.k = "h1" ->
           << "<", "h", "1", " ", "i", "d", "=", "\"" >> \o Slugify(Strip(b.text))
              \o << "\"", ">" >> \o Strip(b.text) \o H1Close
      [] b.k = "p" -> << "<", "p", ">" >> \o b.text \o << "<", "/", "p", ">" >>
      [] OTHER -> H1Open \o b.text \o (IF b.closed THEN H1Close ELSE <<>>)
Markdown(text) ==
    Join([i \in 1..Len(text) |-> RenderBlock(text[i])], << "\n" >>)

----------------------------------------------------------------------------
(* The handlers: what each except clause makes of an exception e.          *)

Returned(code) == [returned |-> TRUE, status |-> code]
\* main() without its "except ConversionError" clause
MainHandlerNoFamily(e) ==
    CASE e = "KeyboardInterrupt"   -> Returned(2)
      [] IsException(e)            -> Returned(3)
      [] e = "SystemExit(0)"       -> [returned |-> FALSE, status |-> 0]
      [] OTHER                     -> [returned |-> FALSE, status |-> 2]
\* main(), lines 425-432; SystemExit is not caught and ends the process
MainHandler(e) ==
    CASE IsConversionError(e)      -> Returned(1)
      [] e = "KeyboardInterrupt"   -> Returned(2)
      [] IsException(e)            -> Returned(3)
      [] e = "SystemExit(0)"       -> [returned |-> FALSE, status |-> 0]
      [] OTHER                     -> [returned |-> FALSE, status |-> 2]
\* convert() with "except Exception" first: every failure is re-wrapped
ConvertHandlerWrapAll(e) == IF IsException(e) THEN "ConversionError" ELSE e
\* convert() re-raising whatever it caught
ConvertHandlerNoWrap(e) == e
\* convert(), lines 365-370
ConvertHandler(e) ==
    IF IsConversionError(e) THEN e
    ELSE IF IsException(e) THEN "ConversionError"
    ELSE e
\* _convert_to_pdf(), lines 329-330
PdfHandler(e) == IF IsException(e) THEN "ConversionError" ELSE e
\* _read_markdown(), lines 205-208, and _convert_to_html(), lines 231-232
WrapHandler(e) == IF IsException(e) THEN "ConversionError" ELSE e
\* the fallback read after any failed read
FallbackAlways(e) == IsException(e)
\* _read_markdown(), line 199: the fallback read follows a decode error only
FallbackNeeded(e) == e = "UnicodeDecodeError"
\* no retry at all
RetryNever(e) == FALSE
\* _convert_to_pdf(), line 317: the retry follows any Exception
RetryNeeded(e) == IsException(e)
\* a directory removed on the normal path only
ExitTempDirOnSuccess(dir, exc) == IF exc = "none" THEN "removed" ELSE dir
\* leaving "with tempfile.TemporaryDirectory()", line 303, normally or by
\* exception exc: the directory and what it holds are removed
ExitTempDir(dir, exc) == "removed"

\* _validate_inputs(), lines 178-183
ValidateInputs(inputIsFile, outDirIsDir) ==
    IF ~inputIsFile THEN "InputValidationError"
    ELSE IF ~outDirIsDir THEN "InputValidationError"
    ELSE "none"

\* _generate_html_document(), lines 243-264: css['base'] and the .get calls
\* on pdf_options need dicts
TemplateError(h, config) ==
    LET css == h[config]["css_styles"]
        pdf == h[config]["pdf_options"]
    IN  IF ~IsDict(css) THEN "TypeError"
        ELSE IF "base" \notin DOMAIN h[css.id] THEN "KeyError"
        ELSE IF ~IsDict(pdf) THEN "AttributeError"
        ELSE "none"

\* lines 299-300: options = pdf_options.copy(); options.update(metadata)
OptionsError(h, config) ==
    LET pdf == h[config]["pdf_options"]
        meta == h[config]["metadata"]
    IN  IF ~IsDict(pdf) THEN "AttributeError"
        ELSE IF ~IsDict(meta) /\ meta.v # "" THEN "ValueError"
        ELSE "none"
FullOptions(h, config) ==
    LET pdf == h[h[config]["pdf_options"].id]
        meta == IF IsDict(h[config]["metadata"])
                THEN h[h[config]["metadata"].id] ELSE EmptyDict
    IN  [k \in DOMAIN pdf \cup DOMAIN meta |->
            IF k \in DOMAIN meta THEN meta[k] ELSE pdf[k]]
\* lines 322-326
RetryOptions(opts) ==
    [k \in {"quiet", "page-size", "encoding"} |->
        CASE k = "quiet" -> Scalar("")
          [] k = "page-size" ->
               IF "page-size" \in DOMAIN opts THEN opts["page-size"]
               ELSE Scalar("A4")
          [] OTHER -> Scalar("UTF-8")]

----------------------------------------------------------------------------
(* Spec: one run of main().                                                *)

\* the values of the variables before anything has set them
NotChecked == [checked |-> FALSE, inputIsFile |-> FALSE, outDirIsDir |-> FALSE]
NoContent == [encoding |-> "none", text |-> <<>>]
NoFailure == [at |-> "none", exc |-> "none"]
Running == [returned |-> FALSE, status |-> -1]
NoValue == Scalar("none")
NoMerge == [base |-> NoValue, update |-> NoValue, b |-> 0, u |-> 0]
NoArgs == [config |-> NoConfig, log |-> "none", input |-> <<>>]

Hello == << "H", "e", "l", "l", "o" >>
World == << "W", "o", "r", "l", "d" >>
InputMd == << "i", "n", "p", "u", "t", ".", "m", "d" >>
\* the Markdown files of a run
RunDocs == { << Heading(Hello), Para(World) >>, << Para(World) >> }
LogFiles == {"none", "writable", "unwritable"}
ConvertPcs ==
    {"validate_inputs", "read_markdown", "read_fallback", "convert_to_html",
     "generate_document", "convert_to_pdf", "write_html", "render_first",
     "render_retry"}

Init ==
    /\ heap = InitHeap
    /\ converters = <<>>
    /\ mergeIn = NoMerge
    /\ mergeOut = NoValue
    /\ pc = "parse_args"
    /\ args = NoArgs
    /\ log = <<>>
    /\ fs = NotChecked
    /\ reads = <<>>
    /\ markdown_content = NoContent
    /\ html_content = <<>>
    /\ title = <<>>
    /\ options = EmptyDict
    /\ tempDir = "none"
    /\ tempHtml = FALSE
    /\ attempts = <<>>
    /\ raised = NoFailure
    /\ convertResult = "none"
    /\ mainResult = Running

\* an exception e leaves main's try block from position at
EndMain(at, e) ==
    /\ raised' = [at |-> at, exc |-> e]
    /\ mainResult' = MainHandler(e)
    /\ pc' = "done"
\* an exception e leaves convert's try block from position at
EndConvert(at, e) ==
    /\ raised' = [at |-> at, exc |-> e]
    /\ convertResult' = ConvertHandler(e)
    /\ mainResult' = MainHandler(ConvertHandler(e))
    /\ pc' = "done"
\* convert() returns True, lines 362-363, and main() returns 0, line 423
ReturnTrue ==
    /\ convertResult' = "True"
    /\ mainResult' = Returned(0)
    /\ pc' = "done"
    /\ UNCHANGED raised

\* line 414: argparse returns the arguments or exits the process
ParseArgs ==
    /\ pc = "parse_args"
    /\ \E out \in {"none", "SystemExit(2)", "SystemExit(0)"} :
        IF out = "none"
        THEN /\ \E cf \in ConfigFiles, lf \in LogFiles :
                    args' = [config |-> cf, log |-> lf, input |-> InputMd]
             /\ pc' = "setup_logging"
             /\ UNCHANGED endVars
        ELSE /\ EndMain("parse_args", out)
             /\ UNCHANGED <<args, convertResult>>
    /\ UNCHANGED <<cfgVars, mergeVars, log, fs, reads, docVars, pdfVars>>

\* line 415: setup_logging opens the log file when one is named
SetupLogging ==
    /\ pc = "setup_logging"
    /\ log' = IF args.log = "none" THEN log ELSE Append(log, "open_log")
    /\ IF args.log = "unwritable"
       THEN EndMain("setup_logging", "OSError") /\ UNCHANGED convertResult
       ELSE pc' = "construct" /\ UNCHANGED endVars
    /\ UNCHANGED <<cfgVars, mergeVars, args, fs, reads, docVars, pdfVars>>

\* line 419: MarkdownToPDFConverter(args.config)
MainConstruct ==
    /\ pc = "construct"
    /\ \E dep \in DependencyOutcomes :
        LET r == LoadConfig(heap, args.config)
            e == IF r.exc # "none" THEN r.exc ELSE ValidateDependencies(dep)
        IN  /\ heap' = r.h
            /\ converters' =
                 Append(converters,
                        [config |-> r.config, file |-> args.config, exc |-> e,
                         initial |-> IF r.exc = "none"
                                     THEN Value(r.h, Ref(r.config))
                                     ELSE Scalar("none")])
            /\ log' = log
                 \o (IF args.config = NoConfig THEN <<>> ELSE << "open_config" >>)
                 \o (IF r.exc = "none" THEN << "dep_check" >> ELSE <<>>)
            /\ IF e = "none"
               THEN pc' = "validate_inputs" /\ UNCHANGED endVars
               ELSE EndMain("construct", e) /\ UNCHANGED convertResult
    /\ UNCHANGED <<mergeVars, args, fs, reads, docVars, pdfVars>>

\* line 341
ValidateInputsStep ==
    /\ pc = "validate_inputs"
    /\ \E inputIsFile \in BOOLEAN, outDirIsDir \in BOOLEAN :
        LET e == ValidateInputs(inputIsFile, outDirIsDir)
        IN  /\ fs' = [checked |-> TRUE, inputIsFile |-> inputIsFile,
                     outDirIsDir |-> outDirIsDir]
            /\ log' = Append(log, "stat_paths")
            /\ IF e = "none"
               THEN pc' = "read_markdown" /\ UNCHANGED endVars
               ELSE EndConvert("validate_inputs", e)
    /\ UNCHANGED <<cfgVars, mergeVars, args, reads, docVars, pdfVars>>

\* lines 195-198 and 207-208: the read under utf-8
ReadMarkdown ==
    /\ pc = "read_markdown"
    /\ \E out \in {"none", "UnicodeDecodeError", "OSError"}, text \in RunDocs :
        /\ reads' = Append(reads, [encoding |-> "utf-8", outcome |-> out])
        /\ log' = Append(log, "open_input")
        /\ IF out = "none"
           THEN /\ markdown_content' = [encoding |-> "utf-8", text |-> text]
                /\ pc' = "convert_to_html"
                /\ UNCHANGED endVars
           ELSE IF FallbackNeeded(out)
           THEN /\ pc' = "read_fallback"
                /\ UNCHANGED <<markdown_content, endVars>>
           ELSE /\ EndConvert("read_markdown", WrapHandler(out))
                /\ UNCHANGED markdown_content
    /\ UNCHANGED <<cfgVars, mergeVars, args, fs, html_content, title, pdfVars>>

\* lines 201-206: the read under latin-1
ReadFallback ==
    /\ pc = "read_fallback"
    /\ \E out \in {"none", "OSError"}, text \in RunDocs :
        /\ reads' = Append(reads, [encoding |-> "latin-1", outcome |-> out])
        /\ log' = Append(log, "open_input")
        /\ IF out = "none"
           THEN /\ markdown_content' = [encoding |-> "latin-1", text |-> text]
                /\ pc' = "convert_to_html"
                /\ UNCHANGED endVars
           ELSE /\ EndConvert("read_fallback", WrapHandler(out))
                /\ UNCHANGED markdown_content
    /\ UNCHANGED <<cfgVars, mergeVars, args, fs, html_content, title, pdfVars>>

\* line 345
ConvertToHtml ==
    /\ pc = "convert_to_html"
    /\ \E out \in {"none", "Exception"} :
        /\ log' = Append(log, "markdown")
        /\ IF out = "none"
           THEN /\ html_content' = Markdown(markdown_content.text)
                /\ pc' = "generate_document"
                /\ UNCHANGED endVars
           ELSE /\ EndConvert("convert_to_html", WrapHandler(out))
                /\ UNCHANGED html_content
    /\ UNCHANGED <<cfgVars, mergeVars, args, fs, reads, markdown_content,
                   title, pdfVars>>

\* lines 348-357: the title, then the document around the fragment
GenerateDocument ==
    /\ pc = "generate_document"
    /\ LET config == converters[Len(converters)].config
           e == TemplateError(heap, config)
       IN  IF e = "none"
           THEN /\ title' = DocumentTitle(ExtractTitle(html_content, args.input))
                /\ pc' = "convert_to_pdf"
                /\ UNCHANGED endVars
           ELSE /\ EndConvert("generate_document", e)
                /\ UNCHANGED title
    /\ UNCHANGED <<cfgVars, mergeVars, args, log, fs, reads, markdown_content,
                   html_content, pdfVars>>

\* lines 299-304: the option set, then the temporary directory
ConvertToPdf ==
    /\ pc = "convert_to_pdf"
    /\ \E mk \in {"none", "OSError"} :
        LET config == converters[Len(converters)].config
            oe == OptionsError(heap, config)
            e == IF oe # "none" THEN oe ELSE mk
        IN  IF e = "none"
            THEN /\ options' = FullOptions(heap, config)
                 /\ tempDir' = "exists"
                 /\ log' = Append(log, "mkdtemp")
                 /\ pc' = "write_html"
                 /\ UNCHANGED endVars
            ELSE /\ EndConvert("convert_to_pdf", e)
                 /\ UNCHANGED <<options, tempDir, log>>
    /\ UNCHANGED <<cfgVars, mergeVars, args, fs, reads, docVars, tempHtml,
                   attempts>>

\* lines 308-309: temp.html is written
WriteHtml ==
    /\ pc = "write_html"
    /\ log' = Append(log, "write_temp")
    /\ \E out \in {"none", "OSError"} :
        IF out = "none"
        THEN /\ tempHtml' = TRUE
             /\ pc' = "render_first"
             /\ UNCHANGED <<tempDir, endVars>>
        ELSE /\ tempDir' = ExitTempDir(tempDir, out)
             /\ tempHtml' = FALSE
             /\ EndConvert("write_html", PdfHandler(out))
    /\ UNCHANGED <<cfgVars, mergeVars, args, fs, reads, docVars, options,
                   attempts>>

\* lines 314-319: the first pdfkit.from_file, with the full option set
RenderFirst ==
    /\ pc = "render_first"
    /\ log' = Append(log, "render")
    /\ \E out \in {"none", "Exception"} :
        /\ attempts' = Append(attempts, [options |-> options, outcome |-> out,
                                         dir |-> tempDir, html |-> tempHtml])
        /\ IF out = "none"
           THEN /\ tempDir' = ExitTempDir(tempDir, "none")
                /\ tempHtml' = (tempHtml /\ tempDir' # "removed")
                /\ ReturnTrue
           ELSE IF RetryNeeded(out)
           THEN /\ pc' = "render_retry"
                /\ UNCHANGED <<tempDir, tempHtml, endVars>>
           ELSE /\ tempDir' = ExitTempDir(tempDir, out)
                /\ tempHtml' = (tempHtml /\ tempDir' # "removed")
                /\ EndConvert("render_first", PdfHandler(out))
    /\ UNCHANGED <<cfgVars, mergeVars, args, fs, reads, docVars, options>>

\* lines 322-327: the second pdfkit.from_file, with the reduced option set
RenderRetry ==
    /\ pc = "render_retry"
    /\ log' = Append(log, "render")
    /\ \E out \in {"none", "Exception"} :
        /\ attempts' = Append(attempts, [options |-> RetryOptions(options),
                                         outcome |-> out, dir |-> tempDir,
                                         html |-> tempHtml])
        /\ tempDir' = ExitTempDir(tempDir, out)
        /\ tempHtml' = (tempHtml /\ tempDir' # "removed")
        /\ IF out = "none"
           THEN ReturnTrue
           ELSE EndConvert("render_retry", PdfHandler(out))
    /\ UNCHANGED <<cfgVars, mergeVars, args, fs, reads, docVars, options>>

\* Ctrl-C at the current position: KeyboardInterrupt passes every
\* "except Exception" on its way to main, and leaves the with block
Interrupt ==
    /\ pc # "done"
    /\ raised' = [at |-> pc, exc |-> "KeyboardInterrupt"]
    /\ convertResult' = IF pc \in ConvertPcs
                        THEN ConvertHandler(PdfHandler("KeyboardInterrupt"))
                        ELSE convertResult
    /\ mainResult' = MainHandler(ConvertHandler(PdfHandler("KeyboardInterrupt")))
    /\ tempDir' = IF tempDir = "exists"
                  THEN ExitTempDir(tempDir, "KeyboardInterrupt") ELSE tempDir
    /\ tempHtml' = (tempHtml /\ tempDir' # "removed")
    /\ pc' = "done"
    /\ UNCHANGED <<cfgVars, mergeVars, args, log, fs, reads, docVars, options,
                   attempts>>

Next ==
    \/ ParseArgs
    \/ SetupLogging
    \/ MainConstruct
    \/ ValidateInputsStep
    \/ ReadMarkdown
    \/ ReadFallback
    \/ ConvertToHtml
    \/ GenerateDocument
    \/ ConvertToPdf
    \/ WriteHtml
    \/ RenderFirst
    \/ RenderRetry
    \/ Interrupt

Spec == Init /\ [][Next]_vars

----------------------------------------------------------------------------
(* SpecConfig: one process constructing converters one after another.      *)

MaxConverters == 2

InitConfig == Init

\* MarkdownToPDFConverter(config_path): __init__ loads, then checks.  Each
\* call is recorded with the exception it raised and, when it returned, the
\* configuration the new converter started with.
Construct(cf, dep) ==
    /\ Len(converters) < MaxConverters
    /\ LET r == LoadConfig(heap, cf)
           e == IF r.exc # "none" THEN r.exc ELSE ValidateDependencies(dep)
       IN  /\ heap' = r.h
           /\ converters' =
                Append(converters,
                       [config |-> r.config, file |-> cf, exc |-> e,
                        initial |-> IF r.exc = "none"
                                    THEN Value(r.h, Ref(r.config))
                                    ELSE Scalar("none")])
    /\ UNCHANGED <<mergeVars, pc, args, log, fs, reads, docVars, pdfVars, endVars>>

NextConfig ==
    \E cf \in ConfigFiles, dep \in DependencyOutcomes : Construct(cf, dep)

SpecConfig == InitConfig /\ [][NextConfig]_vars

----------------------------------------------------------------------------
(* SpecMerge: _deep_merge called on a base and an update drawn from all    *)
(* trees of depth two over two keys.                                       *)

MergeKeys == {"a", "b"}
Leaves(S) == {Scalar(v) : v \in S}
MapsOver(V) == {Map(m) : m \in UNION {[D -> V] : D \in SUBSET MergeKeys}}
Trees(S) == MapsOver(Leaves(S) \cup MapsOver(Leaves(S)))

InitMerge ==
    /\ \E B \in Trees({"x"}), O \in Trees({"x", "y"}) :
        LET rb == Alloc(<<>>, B)
            ru == Alloc(rb.h, O)
        IN  /\ heap = ru.h
            /\ mergeIn = [base |-> B, update |-> O, b |-> rb.c.id, u |-> ru.c.id]
    /\ mergeOut = NoValue
    /\ converters = <<>>
    /\ pc = "merge"
    /\ args = NoArgs
    /\ log = <<>>
    /\ fs = NotChecked
    /\ reads = <<>>
    /\ markdown_content = NoContent
    /\ html_content = <<>>
    /\ title = <<>>
    /\ options = EmptyDict
    /\ tempDir = "none"
    /\ tempHtml = FALSE
    /\ attempts = <<>>
    /\ raised = NoFailure
    /\ convertResult = "none"
    /\ mainResult = Running

\* _deep_merge(base, update) and the dict it returns
MergeCall ==
    /\ pc = "merge"
    /\ heap' = DeepMerge(heap, mergeIn.b, mergeIn.u)
    /\ mergeOut' = Value(heap', Ref(mergeIn.b))
    /\ pc' = "merged"
    /\ UNCHANGED <<converters, mergeIn, args, log, fs, reads, docVars, pdfVars,
                   endVars>>

SpecMerge == InitMerge /\ [][MergeCall]_vars

----------------------------------------------------------------------------
(* SpecTitle: convert() from the Markdown render to the document, on a     *)
(* converter with the default configuration, for every short document.     *)

MaxBlocks == 2

TitleBlocks ==
    { Heading(Hello), Para(World),
      RawH1(<< "T" >>, TRUE), RawH1(<< " ", "T", " " >>, TRUE),
      RawH1(<< " " >>, TRUE), RawH1(<<>>, TRUE), RawH1(<< "T" >>, FALSE) }
TitleDocs == UNION {[1..n -> TitleBlocks] : n \in 1..MaxBlocks}
TitlePaths ==
    { InputMd,
      << "d", ".", "x", "/", "n", "o", "t", "e", "s" >>,
      << ".", "m", "d" >> }

InitTitle ==
    /\ heap = LoadConfig(InitHeap, NoConfig).h
    /\ converters = << [config |-> LoadConfig(InitHeap, NoConfig).config,
                        file |-> NoConfig, exc |-> "none",
                        initial |-> BuiltinDefaults] >>
    /\ mergeIn = NoMerge
    /\ mergeOut = NoValue
    /\ pc = "convert_to_html"
    /\ \E f \in TitlePaths : args = [config |-> NoConfig, log |-> "none", input |-> f]
    /\ log = << "dep_check", "stat_paths", "open_input" >>
    /\ fs = [checked |-> TRUE, inputIsFile |-> TRUE, outDirIsDir |-> TRUE]
    /\ reads = << [encoding |-> "utf-8", outcome |-> "none"] >>
    /\ \E text \in TitleDocs : markdown_content = [encoding |-> "utf-8", text |-> text]
    /\ html_content = <<>>
    /\ title = <<>>
    /\ options = EmptyDict
    /\ tempDir = "none"
    /\ tempHtml = FALSE
    /\ attempts = <<>>
    /\ raised = NoFailure
    /\ convertResult = "none"
    /\ mainResult = Running

NextTitle == ConvertToHtml \/ GenerateDocument

SpecTitle == InitTitle /\ [][NextTitle]_vars

----------------------------------------------------------------------------
(* The claims.                                                             *)

Range(f) == {f[i] : i \in DOMAIN f}
Failed == raised.exc # "none"
Interrupted == Failed /\ raised.exc = "KeyboardInterrupt"
\* a failure that is none of the defined kinds
Unexpected ==
    Failed /\ IsException(raised.exc) /\ ~IsConversionError(raised.exc)
TheConfig == converters[Len(converters)].config

\* C1: the first render uses the full option set; a failed first render is
\* followed by exactly one render with the reduced option set before the
\* failure is reported; a successful first render is followed by none; there
\* are never more than two renders.
C1_RetryOnce ==
    /\ Len(attempts) <= 2
    /\ Len(attempts) >= 1 =>
         /\ DOMAIN attempts[1].options =
              DOMAIN heap[heap[TheConfig]["pdf_options"].id]
                \cup (IF IsDict(heap[TheConfig]["metadata"])
                      THEN DOMAIN heap[heap[TheConfig]["metadata"].id] ELSE {})
         /\ attempts[1].outcome = "none" => Len(attempts) = 1
         /\ (attempts[1].outcome # "none" /\ pc = "done" /\ ~Interrupted)
               => Len(attempts) = 2
         /\ (IsConversionError(convertResult)) =>
               /\ Len(attempts) = 2
               /\ attempts[2].outcome # "none"
    /\ Len(attempts) = 2 =>
         /\ attempts[1].outcome # "none"
         /\ DOMAIN attempts[2].options = {"quiet", "page-size", "encoding"}
         /\ attempts[2].options["page-size"] = attempts[1].options["page-size"]
C1_Witness ==
    /\ pc = "done"
    /\ Len(attempts) = 2
    /\ attempts[2].outcome = "Exception"
    /\ convertResult = "ConversionError"

\* C2 as claimed: at the end of the run main() has returned 0 exactly on
\* success, 1 exactly for a failure of a defined kind, 2 exactly for a
\* KeyboardInterrupt, and 3 exactly for a failure of no defined kind,
\* wherever in the run it arose.
C2_ExitCodesAsClaimed ==
    pc = "done" =>
        /\ mainResult = Returned(0) <=> convertResult = "True"
        /\ mainResult = Returned(1) <=> (Failed /\ IsConversionError(raised.exc))
        /\ mainResult = Returned(2) <=> Interrupted
        /\ mainResult = Returned(3) <=> Unexpected
\* C2 as amended: 0 exactly when convert() returned; 1 exactly when the
\* failure is of a defined kind or is an unexpected failure raised inside
\* convert(), which wraps it; 2 exactly for a KeyboardInterrupt; 3 exactly
\* for an unexpected failure raised outside convert(); argparse's SystemExit
\* is not caught, main() returns nothing and the process ends with
\* argparse's status.
C2_ExitCodes ==
    pc = "done" =>
        /\ mainResult = Returned(0) <=> convertResult = "True"
        /\ mainResult = Returned(1) <=>
             \/ Failed /\ IsConversionError(raised.exc)
             \/ Unexpected /\ raised.at \in ConvertPcs
        /\ mainResult = Returned(2) <=> Interrupted
        /\ mainResult = Returned(3) <=>
             (Unexpected /\ raised.at \in {"parse_args", "setup_logging", "construct"})
        /\ mainResult.returned <=>
             ~(Failed /\ raised.exc \in {"SystemExit(0)", "SystemExit(2)"})
        /\ (Failed /\ raised.exc = "SystemExit(2)") => mainResult.status = 2
        /\ (Failed /\ raised.exc = "SystemExit(0)") => mainResult.status = 0
C2_Witness ==
    /\ pc = "done"
    /\ Failed /\ raised.at = "generate_document" /\ raised.exc = "TypeError"
    /\ mainResult = Returned(1)

\* C3: a converter built with no config file starts with the built-in
\* defaults, whatever was constructed before it
C3_DefaultsRetained ==
    \A i \in 1..Len(converters) :
        (converters[i].file = NoConfig /\ converters[i].exc = "none")
            => converters[i].initial = BuiltinDefaults

\* C4: the dict _deep_merge(B, O) returns has the keys of B and of O; a key
\* of B absent from O keeps its value; a key that is a map in both is merged
\* by the same rule; every other key of O has exactly O's value.
RECURSIVE MergeRule(_, _, _)
MergeRule(B, O, R) ==
    /\ DOMAIN R = DOMAIN B \cup DOMAIN O
    /\ \A k \in DOMAIN B \ DOMAIN O : R[k] = B[k]
    /\ \A k \in DOMAIN O :
        IF k \in DOMAIN B /\ B[k].t = "m" /\ O[k].t = "m"
        THEN R[k].t = "m" /\ MergeRule(B[k].m, O[k].m, R[k].m)
        ELSE R[k] = O[k]
C4_DeepMerge ==
    mergeOut.t = "m" =>
        MergeRule(mergeIn.base.m, mergeIn.update.m, mergeOut.m)
C4_Witness ==
    /\ mergeOut.t = "m"
    /\ mergeIn.base = Map("a" :> Map("a" :> Scalar("x") @@ "b" :> Scalar("x"))
                          @@ "b" :> Map("a" :> Scalar("x")))
    /\ mergeIn.update = Map("a" :> Map("b" :> Scalar("y")) @@ "b" :> Scalar("y"))
    /\ mergeOut = Map("a" :> Map("a" :> Scalar("x") @@ "b" :> Scalar("y"))
                      @@ "b" :> Scalar("y"))

\* C5: the temporary directory exists, with temp.html in it, at every
\* render; it exists from its creation to the end of the step; once the step
\* has ended, by whatever path, the directory and temp.html are gone.
C5_TempDirScoped ==
    /\ \A i \in 1..Len(attempts) : attempts[i].dir = "exists" /\ attempts[i].html
    /\ pc \in {"write_html", "render_first", "render_retry"} => tempDir = "exists"
    /\ pc \in {"render_first", "render_retry"} => tempHtml
    /\ pc \notin {"write_html", "render_first", "render_retry"} =>
         /\ tempDir \in {"none", "removed"}
         /\ ~tempHtml
    /\ ("mkdtemp" \in Range(log) /\ pc = "done") => tempDir = "removed"
C5_Witness ==
    /\ pc = "done"
    /\ Interrupted /\ raised.at = "render_retry"
    /\ tempDir = "removed" /\ ~tempHtml
    /\ Len(attempts) = 1

\* C6: when the input is no file or the output directory no directory,
\* convert() raises InputValidationError, as that kind, and nothing was read,
\* rendered or created before it.
C6_ValidationFirst ==
    (fs.checked /\ (~fs.inputIsFile \/ ~fs.outDirIsDir)) =>
        /\ convertResult = "InputValidationError"
        /\ reads = <<>>
        /\ markdown_content = NoContent /\ html_content = <<>>
        /\ attempts = <<>>
        /\ tempDir = "none"
        /\ Range(log) \cap {"open_input", "markdown", "mkdtemp", "write_temp", "render"} = {}
C6_Witness ==
    /\ fs.checked /\ fs.inputIsFile /\ ~fs.outDirIsDir
    /\ mainResult = Returned(1)

\* C7 as claimed: the title of the document is the inner text of the first
\* well-formed level-1 heading of the rendered document when there is one,
\* and the base name of the input file without its extension otherwise.
IsH1(b) == b.k = "h1" \/ (b.k = "raw" /\ b.closed)
FirstH1(text) ==
    text[CHOOSE i \in 1..Len(text) :
            IsH1(text[i]) /\ \A j \in 1..(i - 1) : ~IsH1(text[j])]
C7_TitleAsClaimed ==
    title # <<>> =>
        LET text == markdown_content.text
            stem == SplitExtRoot(BaseName(args.input))
        IN  IF \E i \in 1..Len(text) : IsH1(text[i])
            THEN /\ title \in {Strip(FirstH1(text).text), stem}
                 /\ Strip(FirstH1(text).text) # <<>> =>
                        title = Strip(FirstH1(text).text)
            ELSE title = stem

\* C8: convert(), when not interrupted, returns True or raises an exception
\* of the Conversion family; a failure of another kind is raised as
\* ConversionError, a failure of a defined kind as itself; True is returned
\* only after a render that succeeded.
C8_ConvertOutcomes ==
    /\ (pc = "done" /\ fs.checked /\ ~Interrupted) =>
         (convertResult = "True" \/ IsConversionError(convertResult))
    /\ (Unexpected /\ raised.at \in ConvertPcs) => convertResult = "ConversionError"
    /\ (Failed /\ IsConversionError(raised.exc) /\ raised.at \in ConvertPcs) =>
         convertResult = raised.exc
    /\ convertResult = "True" =>
         /\ attempts # <<>>
         /\ attempts[Len(attempts)].outcome = "none"
         /\ ~Failed
C8_Witness ==
    /\ pc = "done"
    /\ Failed /\ raised.at = "convert_to_pdf" /\ raised.exc = "ValueError"
    /\ convertResult = "ConversionError"

\* C9 as claimed: when the dependency check fails, the configuration file
\* has not been opened before it.
C9_DependencyCheckFirst ==
    (Failed /\ raised.exc = "DependencyError") => "open_config" \notin Range(log)

\* C10: the first read is under utf-8; a second read happens only after a
\* decode error, once, under latin-1; the read fails, as ConversionError,
\* only when the last read failed; a successful latin-1 read is the content
\* the run goes on with; a utf-8 read failing otherwise is not retried.
C10_EncodingFallback ==
    /\ Len(reads) <= 2
    /\ Len(reads) >= 1 =>
         /\ reads[1].encoding = "utf-8"
         /\ reads[1].outcome = "none" =>
              (Len(reads) = 1 /\ markdown_content.encoding = "utf-8")
         /\ reads[1].outcome = "OSError" =>
              /\ Len(reads) = 1
              /\ convertResult = "ConversionError"
              /\ raised = [at |-> "read_markdown", exc |-> "ConversionError"]
         /\ (reads[1].outcome = "UnicodeDecodeError" /\ Len(reads) = 1) =>
              \/ pc = "read_fallback"
              \/ Interrupted /\ raised.at = "read_fallback"
    /\ Len(reads) = 2 =>
         /\ reads[1].outcome = "UnicodeDecodeError"
         /\ reads[2].encoding = "latin-1"
         /\ reads[2].outcome = "none" => markdown_content.encoding = "latin-1"
         /\ reads[2].outcome # "none" =>
              /\ convertResult = "ConversionError"
              /\ raised = [at |-> "read_fallback", exc |-> "ConversionError"]
    /\ (Failed /\ raised.at \in {"read_markdown", "read_fallback"} /\ ~Interrupted) =>
         reads[Len(reads)].outcome = "OSError"
C10_Witness ==
    /\ pc = "done"
    /\ Len(reads) = 2 /\ reads[2].outcome = "none"
    /\ markdown_content.encoding = "latin-1"
    /\ convertResult = "True"
====
